---- MODULE Spec2Model ----
(***************************************************************************)
(* Usage / subscription accounting of csv-analyzer: the file-backed        *)
(* UsageTracker (app/core/usage_tracker.py) that the Stripe webhook        *)
(* handler writes to, the database-backed DBUsageTracker                   *)
(* (app/core/db_usage_tracker.py) that the Streamlit application gates on, *)
(* the webhook handler and its three HTTP endpoints, and the per-request   *)
(* analysis flow of app/main.py.                                           *)
(*                                                                         *)
(* Time is the calendar day (datetime.now().date()); a timestamp is the    *)
(* day it falls on.  Python None is NoDate for dates and None for strings. *)
(* The database tracker is modelled in its deployed configuration          *)
(* (supabase_client present, FALLBACK_TO_TEST_USER unset); numeric columns *)
(* of a freshly inserted profile row are 0 and its other columns null.     *)
(***************************************************************************)
EXTENDS Integers, FiniteSets, Sequences, TLC

\* ------------------------------------------------------------------ bounds
MaxTicks == 1        \* how many times the clock is advanced
LongJump == 31       \* the clock advances by 1 day or by LongJump days
MaxCount == 2        \* record_analysis is not called once total_analyses reaches this
NSess    == 3        \* concurrent application sessions (browser tabs)

\* --------------------------------------------------------------- constants
None   == "None"
NoDate == 0 - 1

Users       == {"u1"}
Sess        == 1..NSess
CustomerIds == {"cus_1"}
SubIds      == {"sub_1", "sub_2"}
UpgradeSubIds == {"sub_1"}
DayJumps    == {1, LongJump}

SubscriptionTier == {"free", "pro", "enterprise", "admin"}

\* UsageTracker.TIER_LIMITS[tier].daily_analyses
TIER_LIMITS == [free |-> 1, pro |-> -1, enterprise |-> -1, admin |-> -1]

\* UsageLimits.TIER_LIMITS[tier]["daily_analyses"] of the database tracker
DB_TIER_LIMITS == [free |-> 1, pro |-> -1, enterprise |-> -1, admin |-> -1]

FileExpiryDays == 30
DbExpiryDays   == 31

\* ------------------------------------------------------------------- state
VARIABLES
    files,          \* user_data/user_<id>_usage.json : the file tracker's store
    profiles,       \* table "profiles" : the database tracker's store
    today,          \* datetime.now().date()
    ticks,          \* number of clock advances so far
    ret,            \* what the last completed call returned
    records_today,  \* per tracker and user: record_analysis calls completed today
    pc,             \* per session: position in the request flow of main()
    gate,           \* per session: can_analyze of the current request
    upd,            \* per session: update_data computed by record_analysis
    history,        \* per user: number of audit records saved
    in_service,     \* the trackers that calls are made to
    proc,           \* per process: a file-tracker call between its load and its save
    upload          \* per session: the file in the uploader and whether it was processed

vars == <<files, profiles, today, ticks, ret, records_today, pc, gate, upd,
          history, in_service, proc, upload>>

\* ------------------------------------------------------- usage information
\* The usage_info dictionaries the trackers return; a key that is absent
\* from the dictionary has present / has_total FALSE.
NoInfo ==
    [present |-> FALSE, current_tier |-> "", daily_analyses_used |-> 0,
     daily_analyses_limit |-> 0, analyses_remaining |-> 0,
     has_total |-> FALSE, total_analyses |-> 0]

Info(tier, used, limit, remaining, hasTotal, total) ==
    [present |-> TRUE, current_tier |-> tier, daily_analyses_used |-> used,
     daily_analyses_limit |-> limit, analyses_remaining |-> remaining,
     has_total |-> hasTotal, total_analyses |-> IF hasTotal THEN total ELSE 0]

NoRet ==
    [op |-> "none", user |-> None, ok |-> FALSE, info |-> NoInfo,
     http |-> 0, status |-> "", event |-> "", fault |-> FALSE]

CallRet(op, u, ok, info) ==
    [NoRet EXCEPT !.op = op, !.user = u, !.ok = ok, !.info = info]

\* ============================================================ file tracker
\* UsageStats() : the dataclass defaults, created_at = now
UsageStats(now) ==
    [daily_analyses |-> 0, total_analyses |-> 0, last_analysis_date |-> NoDate,
     subscription_tier |-> "free", subscription_expires |-> NoDate,
     created_at |-> now, stripe_customer_id |-> None,
     stripe_subscription_id |-> None, subscription_status |-> "active"]

NoFile == [exists |-> FALSE, data |-> UsageStats(0)]

\* _load_user_stats : the stored statistics, or new ones if there is no file
LoadUserStats(store, u, now) ==
    IF store[u].exists THEN store[u].data ELSE UsageStats(now)

\* _save_user_stats : the whole record is rewritten
SaveUserStats(store, u, stats) ==
    [store EXCEPT ![u] = [exists |-> TRUE, data |-> stats]]

\* "Reset daily count if new day" (in memory)
ResetDaily(stats, now) ==
    IF stats.last_analysis_date # now
    THEN [stats EXCEPT !.daily_analyses = 0]
    ELSE stats

\* the expiry test of can_perform_analysis
FtExpired(stats, now) ==
    /\ stats.subscription_tier # "free"
    /\ stats.subscription_expires # NoDate
    /\ now > stats.subscription_expires

\* the in-place downgrade of can_perform_analysis
FtExpire(stats) ==
    [stats EXCEPT !.subscription_tier = "free", !.subscription_expires = NoDate]

\* analyses_remaining as the file tracker computes it
FtRemaining(limit, used) == IF limit > 0 THEN limit - used ELSE -1

\* FtDecision with the "limits.daily_analyses > 0" test dropped
FtDecision_NoUnlimitedTest(stats) ==
    LET limit == TIER_LIMITS[stats.subscription_tier] IN
    IF stats.daily_analyses >= limit
    THEN [allowed |-> FALSE,
          info |-> Info(stats.subscription_tier, stats.daily_analyses, limit, 0, FALSE, 0)]
    ELSE [allowed |-> TRUE,
          info |-> Info(stats.subscription_tier, stats.daily_analyses, limit,
                        FtRemaining(limit, stats.daily_analyses), TRUE,
                        stats.total_analyses)]

\* "Check daily limits" : the decision and usage_info of can_perform_analysis
FtDecision(stats) ==
    LET limit == TIER_LIMITS[stats.subscription_tier] IN
    IF limit > 0 /\ stats.daily_analyses >= limit
    THEN [allowed |-> FALSE,
          info |-> Info(stats.subscription_tier, stats.daily_analyses, limit, 0, FALSE, 0)]
    ELSE [allowed |-> TRUE,
          info |-> Info(stats.subscription_tier, stats.daily_analyses, limit,
                        FtRemaining(limit, stats.daily_analyses), TRUE,
                        stats.total_analyses)]

\* UsageTracker.can_perform_analysis
FtCanPerformAnalysis(u) ==
    LET s0  == LoadUserStats(files, u, today)
        s1  == ResetDaily(s0, today)
        exp == FtExpired(s1, today)
        s2  == IF exp THEN FtExpire(s1) ELSE s1
        d   == FtDecision(s2)
    IN  /\ "file" \in in_service
        /\ files' = IF exp THEN SaveUserStats(files, u, s2) ELSE files
        /\ ret' = CallRet("ft_can_perform", u, d.allowed, d.info)
        /\ UNCHANGED <<profiles, today, ticks, records_today,
                       pc, gate, upd, history, in_service, proc, upload>>

\* "Increment counters" of record_analysis
FtIncrement(stats, now) ==
    [stats EXCEPT !.daily_analyses = @ + 1, !.total_analyses = @ + 1,
                  !.last_analysis_date = now]

\* UsageTracker.record_analysis, called after a permit as the request flow does
FtRecordAnalysis(u) ==
    LET s0 == LoadUserStats(files, u, today)
        s2 == FtIncrement(ResetDaily(s0, today), today)
        limit == TIER_LIMITS[s2.subscription_tier]
    IN  /\ "file" \in in_service
        /\ ret.op = "ft_can_perform" /\ ret.user = u /\ ret.ok
        /\ s0.total_analyses < MaxCount
        /\ records_today["file"][u] < MaxCount
        /\ files' = SaveUserStats(files, u, s2)
        /\ records_today' = [records_today EXCEPT !["file"][u] = @ + 1]
        /\ ret' = CallRet("ft_record", u, TRUE,
                          Info(s2.subscription_tier, s2.daily_analyses, limit,
                               FtRemaining(limit, s2.daily_analyses), TRUE,
                               s2.total_analyses))
        /\ UNCHANGED <<profiles, today, ticks, pc, gate, upd, history, in_service, proc, upload>>

\* UsageTracker.get_user_tier_info
FtTierInfo(stats, now) ==
    LET limit == TIER_LIMITS[stats.subscription_tier]
        daily_used == IF stats.last_analysis_date # now THEN 0 ELSE stats.daily_analyses
    IN  Info(stats.subscription_tier, daily_used, limit,
             FtRemaining(limit, daily_used), TRUE, stats.total_analyses)

FtGetUserTierInfo(u) ==
    /\ "file" \in in_service
    /\ ret' = CallRet("ft_tier_info", u, TRUE,
                      FtTierInfo(LoadUserStats(files, u, today), today))
    /\ UNCHANGED <<files, profiles, today, ticks, records_today,
                   pc, gate, upd, history, in_service, proc, upload>>

\* ------------------------------------------------ file tracker: lifecycle
UpgradeTiers == {"pro", "admin"}
StatusTiers  == {"free", "pro"}
StatusInputs == {"active", "past_due", "trialing"}

\* FtUpgrade that leaves subscription_status as it was
FtUpgrade_KeepsStatus(stats, tier, customer_id, subscription_id, now) ==
    LET s1 == [stats EXCEPT !.subscription_tier = tier,
                            !.stripe_customer_id = customer_id,
                            !.stripe_subscription_id = subscription_id]
    IN  IF tier # "free"
        THEN [s1 EXCEPT !.subscription_expires = now + FileExpiryDays]
        ELSE s1

\* the body of upgrade_user_subscription (the later definition, which is the
\* one the class ends up with)
FtUpgrade(stats, tier, customer_id, subscription_id, now) ==
    LET s1 == [stats EXCEPT !.subscription_tier = tier,
                            !.stripe_customer_id = customer_id,
                            !.stripe_subscription_id = subscription_id,
                            !.subscription_status = "active"]
    IN  IF tier # "free"
        THEN [s1 EXCEPT !.subscription_expires = now + FileExpiryDays]
        ELSE s1

\* the body of downgrade_user_subscription
FtDowngrade(stats) ==
    [stats EXCEPT !.subscription_tier = "free",
                  !.subscription_expires = NoDate,
                  !.subscription_status = "cancelled"]

\* the body of update_user_subscription_status
FtUpdateStatus(stats, tier, subscription_id, status, now) ==
    LET s1 == [stats EXCEPT !.subscription_tier = tier,
                            !.stripe_subscription_id = subscription_id,
                            !.subscription_status = status]
    IN  IF status = "active" /\ tier # "free"
        THEN [s1 EXCEPT !.subscription_expires = now + FileExpiryDays]
        ELSE IF status \in {"cancelled", "unpaid", "past_due"}
        THEN [s1 EXCEPT !.subscription_tier = "free",
                        !.subscription_expires = NoDate]
        ELSE s1

\* confirm_user_subscription : does the stored subscription id match
FtConfirmMatches(stats, subscription_id) ==
    stats.stripe_subscription_id = subscription_id

\* the body of confirm_user_subscription when the ids match
FtConfirm(stats, now) ==
    LET s1 == [stats EXCEPT !.subscription_status = "active"] IN
    IF s1.subscription_tier # "free"
    THEN [s1 EXCEPT !.subscription_expires = now + FileExpiryDays]
    ELSE s1

\* get_user_by_customer_id : os.listdir(self.data_dir) raises AttributeError
\* (the tracker only has storage_path), which the handler catches and
\* answers None
FtGetUserByCustomerId(store, customer_id) == None

FtLifecycleFrame ==
    UNCHANGED <<profiles, today, ticks, records_today,
                pc, gate, upd, history, in_service, proc, upload>>

FtUpgradeUserSubscription(u, tier, customer_id, subscription_id) ==
    /\ "file" \in in_service
    /\ files' = SaveUserStats(files, u,
                    FtUpgrade(LoadUserStats(files, u, today), tier,
                              customer_id, subscription_id, today))
    /\ ret' = CallRet("ft_upgrade", u, TRUE, NoInfo)
    /\ FtLifecycleFrame

FtDowngradeUserSubscription(u) ==
    /\ "file" \in in_service
    /\ files' = SaveUserStats(files, u, FtDowngrade(LoadUserStats(files, u, today)))
    /\ ret' = CallRet("ft_downgrade", u, TRUE, NoInfo)
    /\ FtLifecycleFrame

FtUpdateUserSubscriptionStatus(u, tier, subscription_id, status) ==
    /\ "file" \in in_service
    /\ files' = SaveUserStats(files, u,
                    FtUpdateStatus(LoadUserStats(files, u, today), tier,
                                   subscription_id, status, today))
    /\ ret' = CallRet("ft_update_status", u, TRUE, NoInfo)
    /\ FtLifecycleFrame

FtConfirmUserSubscription(u, subscription_id) ==
    LET s0 == LoadUserStats(files, u, today) IN
    /\ "file" \in in_service
    /\ IF FtConfirmMatches(s0, subscription_id)
       THEN /\ files' = SaveUserStats(files, u, FtConfirm(s0, today))
            /\ ret' = CallRet("ft_confirm", u, TRUE, NoInfo)
       ELSE /\ files' = files
            /\ ret' = CallRet("ft_confirm", u, FALSE, NoInfo)
    /\ FtLifecycleFrame

\* ------------------------------- file tracker: calls of concurrent processes
\* The application process and the webhook server process both hold a
\* UsageTracker on the same directory; every method is a _load_user_stats,
\* a change of the loaded object and a _save_user_stats, with no lock.
Procs == {"app", "billing"}

NoProc == [at |-> "idle", op |-> "none", user |-> None, stats |-> UsageStats(0)]

LifecycleOps == {"upgrade", "downgrade"}

ProcFrame ==
    UNCHANGED <<profiles, today, ticks, pc, gate, upd, history, in_service,
                upload>>

\* record_analysis, up to and including stats = self._load_user_stats(user_id)
FtRecordLoad(u) ==
    LET s0 == LoadUserStats(files, u, today) IN
    /\ "file" \in in_service
    /\ proc["app"].at = "idle"
    /\ s0.total_analyses < MaxCount
    /\ records_today["file"][u] < MaxCount
    /\ proc' = [proc EXCEPT !["app"] =
                   [at |-> "loaded", op |-> "record", user |-> u, stats |-> s0]]
    /\ UNCHANGED <<files, ret, records_today>>
    /\ ProcFrame

\* record_analysis, from the daily reset to self._save_user_stats(user_id, stats)
FtRecordSave ==
    LET u  == proc["app"].user
        s2 == FtIncrement(ResetDaily(proc["app"].stats, today), today)
        limit == TIER_LIMITS[s2.subscription_tier]
    IN  /\ "file" \in in_service
        /\ proc["app"].at = "loaded"
        /\ files' = SaveUserStats(files, u, s2)
        /\ ret' = CallRet("ft_record", u, TRUE,
                          Info(s2.subscription_tier, s2.daily_analyses, limit,
                               FtRemaining(limit, s2.daily_analyses), TRUE,
                               s2.total_analyses))
        /\ records_today' = [records_today EXCEPT !["file"][u] = @ + 1]
        /\ proc' = [proc EXCEPT !["app"] = NoProc]
        /\ ProcFrame

\* upgrade_user_subscription / downgrade_user_subscription of the webhook
\* handler, up to and including stats = self._load_user_stats(user_id)
FtLifecycleLoad(u, op) ==
    /\ "file" \in in_service
    /\ proc["billing"].at = "idle"
    /\ proc' = [proc EXCEPT !["billing"] =
                   [at |-> "loaded", op |-> op, user |-> u,
                    stats |-> LoadUserStats(files, u, today)]]
    /\ UNCHANGED <<files, ret, records_today>>
    /\ ProcFrame

\* the rest of the lifecycle method: the field assignments and the save
FtLifecycleSave ==
    LET u  == proc["billing"].user
        s0 == proc["billing"].stats
        s2 == IF proc["billing"].op = "upgrade"
              THEN FtUpgrade(s0, "pro", "cus_1", "sub_1", today)
              ELSE FtDowngrade(s0)
    IN  /\ "file" \in in_service
        /\ proc["billing"].at = "loaded"
        /\ files' = SaveUserStats(files, u, s2)
        /\ ret' = CallRet(IF proc["billing"].op = "upgrade" THEN "ft_upgrade"
                          ELSE "ft_downgrade", u, TRUE, NoInfo)
        /\ proc' = [proc EXCEPT !["billing"] = NoProc]
        /\ UNCHANGED records_today
        /\ ProcFrame

\* ======================================================== database tracker
\* a row of table "profiles" as the insert of _get_or_create_user_profile
\* leaves it
NewProfile ==
    [subscription_tier |-> "free", subscription_status |-> "active",
     daily_analyses |-> 0, total_analyses |-> 0, last_analysis_date |-> NoDate,
     stripe_customer_id |-> None, stripe_subscription_id |-> None,
     subscription_expires_at |-> NoDate]

NoRow == [exists |-> FALSE, data |-> NewProfile]

\* _get_or_create_user_profile : the table after the call (select + insert)
GetOrCreate(table, u) ==
    IF table[u].exists THEN table
    ELSE [table EXCEPT ![u] = [exists |-> TRUE, data |-> NewProfile]]

\* _get_usage_info(profile, current_daily_count); hasCur = "is not None"
GetUsageInfo(profile, hasCur, cur, now) ==
    LET limit == DB_TIER_LIMITS[profile.subscription_tier]
        used0 == IF hasCur THEN cur ELSE profile.daily_analyses
        daily_used == IF profile.last_analysis_date # now THEN 0 ELSE used0
        remaining == IF limit > 0 THEN limit - daily_used ELSE -1
    IN  Info(profile.subscription_tier, daily_used, limit, remaining, TRUE,
             profile.total_analyses)

\* DbDecision that denies only above the limit
DbDecision_OffByOne(profile, now) ==
    LET limit == DB_TIER_LIMITS[profile.subscription_tier]
        daily == IF profile.last_analysis_date # now THEN 0
                 ELSE profile.daily_analyses
    IN  IF limit < 0
        THEN [allowed |-> TRUE, info |-> GetUsageInfo(profile, FALSE, 0, now)]
        ELSE IF daily > limit
        THEN [allowed |-> FALSE, info |-> GetUsageInfo(profile, TRUE, daily, now)]
        ELSE [allowed |-> TRUE, info |-> GetUsageInfo(profile, TRUE, daily, now)]

\* the decision of DBUsageTracker.can_perform_analysis on a loaded profile
DbDecision(profile, now) ==
    LET limit == DB_TIER_LIMITS[profile.subscription_tier]
        daily == IF profile.last_analysis_date # now THEN 0
                 ELSE profile.daily_analyses
    IN  IF limit < 0
        THEN [allowed |-> TRUE, info |-> GetUsageInfo(profile, FALSE, 0, now)]
        ELSE IF daily >= limit
        THEN [allowed |-> FALSE, info |-> GetUsageInfo(profile, TRUE, daily, now)]
        ELSE [allowed |-> TRUE, info |-> GetUsageInfo(profile, TRUE, daily, now)]

\* DbUpdateData without the reset on a new day
DbUpdateData_NoReset(profile, now) ==
    [daily_analyses |-> profile.daily_analyses + 1,
     total_analyses |-> profile.total_analyses + 1,
     last_analysis_date |-> now]

\* update_data of DBUsageTracker.record_analysis
DbUpdateData(profile, now) ==
    [daily_analyses |-> (IF profile.last_analysis_date # now THEN 0
                         ELSE profile.daily_analyses) + 1,
     total_analyses |-> profile.total_analyses + 1,
     last_analysis_date |-> now]

\* table("profiles").update(update_data).eq("id", u) of record_analysis
DbApplyUpdate(profile, data) ==
    [profile EXCEPT !.daily_analyses = data.daily_analyses,
                    !.total_analyses = data.total_analyses,
                    !.last_analysis_date = data.last_analysis_date]

DbFrame ==
    UNCHANGED <<files, today, ticks, records_today,
                pc, gate, upd, history, in_service, proc, upload>>

\* DBUsageTracker.can_perform_analysis, one call running alone
DbCanPerformAnalysis(u) ==
    LET t1 == GetOrCreate(profiles, u)
        d  == DbDecision(t1[u].data, today)
    IN  /\ "db" \in in_service
        /\ profiles' = t1
        /\ ret' = CallRet("db_can_perform", u, d.allowed, d.info)
        /\ DbFrame

\* DBUsageTracker.record_analysis, one call running alone after a permit
DbRecordAnalysis(u) ==
    LET t1 == GetOrCreate(profiles, u)
        p2 == DbApplyUpdate(t1[u].data, DbUpdateData(t1[u].data, today))
    IN  /\ "db" \in in_service
        /\ ret.op = "db_can_perform" /\ ret.user = u /\ ret.ok
        /\ t1[u].data.total_analyses < MaxCount
        /\ profiles' = [t1 EXCEPT ![u].data = p2]
        /\ records_today' = [records_today EXCEPT !["db"][u] = @ + 1]
        /\ ret' = CallRet("db_record", u, TRUE, GetUsageInfo(p2, FALSE, 0, today))
        /\ UNCHANGED <<files, today, ticks, pc, gate, upd, history, in_service, proc, upload>>

\* DBUsageTracker.get_user_tier_info
DbGetUserTierInfo(u) ==
    LET t1 == GetOrCreate(profiles, u) IN
    /\ "db" \in in_service
    /\ profiles' = t1
    /\ ret' = CallRet("db_tier_info", u, TRUE,
                      GetUsageInfo(t1[u].data, FALSE, 0, today))
    /\ DbFrame

\* ---------------------------------------------- database tracker: lifecycle
\* DbUpgrade that flips the status of a subscription that is already active
DbUpgrade_TogglesStatus(profile, tier, customer_id, subscription_id, now) ==
    [profile EXCEPT !.subscription_tier = tier,
                    !.subscription_status =
                        IF @ = "active" /\ profile.subscription_tier = tier
                        THEN "renewed" ELSE "active",
                    !.stripe_customer_id = customer_id,
                    !.stripe_subscription_id = subscription_id,
                    !.subscription_expires_at = now + DbExpiryDays]

\* update_data of upgrade_user_subscription
DbUpgrade(profile, tier, customer_id, subscription_id, now) ==
    [profile EXCEPT !.subscription_tier = tier,
                    !.subscription_status = "active",
                    !.stripe_customer_id = customer_id,
                    !.stripe_subscription_id = subscription_id,
                    !.subscription_expires_at = now + DbExpiryDays]

\* update_data of downgrade_user_subscription
DbDowngrade(profile) ==
    [profile EXCEPT !.subscription_tier = "free",
                    !.subscription_status = "cancelled",
                    !.stripe_subscription_id = None,
                    !.subscription_expires_at = NoDate]

\* update_data of update_user_subscription_status
DbUpdateStatus(profile, tier, status, now) ==
    IF status # "active"
    THEN [profile EXCEPT !.subscription_status = status,
                         !.subscription_tier = "free",
                         !.subscription_expires_at = NoDate]
    ELSE [profile EXCEPT !.subscription_status = status,
                         !.subscription_tier = tier,
                         !.subscription_expires_at = now + DbExpiryDays]

\* update_data of confirm_user_subscription
DbConfirm(profile, now) ==
    [profile EXCEPT !.subscription_status = "active",
                    !.subscription_expires_at = now + DbExpiryDays]

\* update_data of upgrade_to_admin
DbAdmin(profile) ==
    [profile EXCEPT !.subscription_tier = "admin",
                    !.subscription_status = "active",
                    !.subscription_expires_at = NoDate]

\* table("profiles").update(...).eq("id", u).execute() : the rows it returns
\* are empty when there is no such row, and the method answers False
DbLifecycle(op, u, newData) ==
    /\ IF profiles[u].exists
       THEN /\ profiles' = [profiles EXCEPT ![u].data = newData]
            /\ ret' = CallRet(op, u, TRUE, NoInfo)
       ELSE /\ profiles' = profiles
            /\ ret' = CallRet(op, u, FALSE, NoInfo)
    /\ DbFrame

DbUpgradeUserSubscription(u, tier, customer_id, subscription_id) ==
    /\ "db" \in in_service
    /\ DbLifecycle("db_upgrade", u,
                   DbUpgrade(profiles[u].data, tier, customer_id, subscription_id, today))

DbDowngradeUserSubscription(u) ==
    /\ "db" \in in_service
    /\ DbLifecycle("db_downgrade", u, DbDowngrade(profiles[u].data))

DbUpdateUserSubscriptionStatus(u, tier, status) ==
    /\ "db" \in in_service
    /\ DbLifecycle("db_update_status", u,
                   DbUpdateStatus(profiles[u].data, tier, status, today))

DbConfirmUserSubscription(u) ==
    /\ "db" \in in_service
    /\ DbLifecycle("db_confirm", u, DbConfirm(profiles[u].data, today))

DbUpgradeToAdmin(u) ==
    /\ "db" \in in_service
    /\ DbLifecycle("db_admin", u, DbAdmin(profiles[u].data))

\* ========================================================= webhook handler
CheckoutCompleted   == "checkout.session.completed"
SubscriptionUpdated == "customer.subscription.updated"
SubscriptionDeleted == "customer.subscription.deleted"
PaymentSucceeded    == "invoice.payment_succeeded"
PaymentFailed       == "invoice.payment_failed"

\* the billing events the payment provider can deliver; user is
\* data.object.metadata.user_id
Event(id, type, user, status) ==
    [id |-> id, type |-> type, user |-> user, customer |-> "cus_1",
     subscription |-> "sub_1", status |-> status]

Events ==
    { Event("evt_1", CheckoutCompleted, "u1", ""),
      Event("evt_2", CheckoutCompleted, None, ""),
      Event("evt_3", SubscriptionUpdated, None, "past_due"),
      Event("evt_4", SubscriptionDeleted, None, ""),
      Event("evt_5", PaymentSucceeded, None, ""),
      Event("evt_6", PaymentFailed, None, ""),
      Event("evt_7", "charge.refunded", None, "") }

\* _handle_checkout_completed
HandleCheckoutCompleted(store, e, now) ==
    IF e.user = None
    THEN [store |-> store, status |-> "error"]
    ELSE [store |-> SaveUserStats(store, e.user,
                        FtUpgrade(LoadUserStats(store, e.user, now), "pro",
                                  e.customer, e.subscription, now)),
          status |-> "success"]

\* _handle_subscription_updated
HandleSubscriptionUpdated(store, e, now) ==
    LET user_id == FtGetUserByCustomerId(store, e.customer)
        tier    == IF e.status = "active" THEN "pro" ELSE "free"
    IN  IF user_id = None
        THEN [store |-> store, status |-> "ignored"]
        ELSE [store |-> SaveUserStats(store, user_id,
                            FtUpdateStatus(LoadUserStats(store, user_id, now),
                                           tier, e.subscription, e.status, now)),
              status |-> "success"]

\* _handle_subscription_cancelled
HandleSubscriptionCancelled(store, e, now) ==
    LET user_id == FtGetUserByCustomerId(store, e.customer) IN
    IF user_id = None
    THEN [store |-> store, status |-> "ignored"]
    ELSE [store |-> SaveUserStats(store, user_id,
                        FtDowngrade(LoadUserStats(store, user_id, now))),
          status |-> "success"]

\* _handle_payment_succeeded
HandlePaymentSucceeded(store, e, now) ==
    LET user_id == FtGetUserByCustomerId(store, e.customer) IN
    IF user_id = None
    THEN [store |-> store, status |-> "ignored"]
    ELSE LET s0 == LoadUserStats(store, user_id, now) IN
         [store |-> IF FtConfirmMatches(s0, e.subscription)
                    THEN SaveUserStats(store, user_id, FtConfirm(s0, now))
                    ELSE store,
          status |-> "success"]

\* HandlePaymentFailed that downgrades the users of the customer
HandlePaymentFailed_Downgrades(store, e, now) ==
    [store |-> [u \in Users |->
                   IF store[u].exists /\ store[u].data.stripe_customer_id = e.customer
                   THEN [exists |-> TRUE, data |-> FtDowngrade(store[u].data)]
                   ELSE store[u]],
     status |-> "warning"]

\* _handle_payment_failed
HandlePaymentFailed(store, e, now) ==
    LET user_id == FtGetUserByCustomerId(store, e.customer) IN
    IF user_id = None
    THEN [store |-> store, status |-> "ignored"]
    ELSE [store |-> store, status |-> "warning"]

\* StripeWebhookHandler.handle_webhook_event : dispatch on the event type
HandleWebhookEvent(store, e, now) ==
    IF e.type = CheckoutCompleted THEN HandleCheckoutCompleted(store, e, now)
    ELSE IF e.type = SubscriptionUpdated THEN HandleSubscriptionUpdated(store, e, now)
    ELSE IF e.type = SubscriptionDeleted THEN HandleSubscriptionCancelled(store, e, now)
    ELSE IF e.type = PaymentSucceeded THEN HandlePaymentSucceeded(store, e, now)
    ELSE IF e.type = PaymentFailed THEN HandlePaymentFailed(store, e, now)
    ELSE [store |-> store, status |-> "ignored"]

\* ------------------------------------------------------- webhook endpoints
Endpoints  == {"webhook_server", "webhook_server_integration", "webhook_integration"}
Signatures == {"missing", "invalid", "valid"}

\* the status code of a request whose stripe-signature header is missing or
\* does not verify.  Each endpoint raises HTTPException(400); webhook_server
\* re-raises it, the other two catch it in `except Exception` and raise 500.
RejectStatus(endpoint) ==
    IF endpoint = "webhook_server" THEN 400 ELSE 500

\* the status code answered for a result of handle_webhook_event
ResultStatus(endpoint, status) ==
    IF endpoint = "webhook_server"
    THEN IF status = "error" THEN 500 ELSE 200
    ELSE 200

\* the response to a delivery: the status code, and the result of
\* handle_webhook_event when the handler was reached (status "rejected" when
\* it was not)
WebhookRet(e, http, status) ==
    [NoRet EXCEPT !.op = "webhook", !.ok = (status = "success"),
                  !.http = http, !.status = status,
                  !.user = IF status = "rejected" THEN None ELSE e.user,
                  !.event = IF status = "rejected" THEN "" ELSE e.id]

\* POST /webhook/stripe
StripeWebhook(endpoint, sig, e) ==
    LET r == HandleWebhookEvent(files, e, today) IN
    /\ "file" \in in_service
    /\ IF sig # "valid"
       THEN /\ files' = files
            /\ ret' = WebhookRet(e, RejectStatus(endpoint), "rejected")
       ELSE /\ files' = r.store
            /\ ret' = WebhookRet(e, ResultStatus(endpoint, r.status), r.status)
    /\ UNCHANGED <<profiles, today, ticks, records_today, pc, gate, upd, history, in_service, proc, upload>>

\* ======================================================== storage failures
\* What the calls do when the persistence layer fails under them.  ret.fault
\* records that it did.

\* _load_user_stats when the file exists and cannot be read or parsed: the
\* exception is logged and new statistics are returned
LoadUserStatsFailed(now) == UsageStats(now)

FaultRet(op, u, ok, info) == [CallRet(op, u, ok, info) EXCEPT !.fault = TRUE]

\* UsageTracker.can_perform_analysis while the user's file cannot be read
FtCanPerformAnalysisFault(u) ==
    LET s1  == ResetDaily(LoadUserStatsFailed(today), today)
        exp == FtExpired(s1, today)
        s2  == IF exp THEN FtExpire(s1) ELSE s1
        d   == FtDecision(s2)
    IN  /\ "file" \in in_service
        /\ files[u].exists
        /\ files' = IF exp THEN SaveUserStats(files, u, s2) ELSE files
        /\ ret' = FaultRet("ft_can_perform", u, d.allowed, d.info)
        /\ UNCHANGED <<profiles, today, ticks, records_today,
                       pc, gate, upd, history, in_service, proc, upload>>

\* UsageTracker.upgrade_user_subscription while the load or the save fails;
\* the method answers what _save_user_stats answers
FtUpgradeUserSubscriptionFault(u, tier, customer_id, subscription_id, loadOk, saveOk) ==
    LET s0 == IF loadOk THEN LoadUserStats(files, u, today)
              ELSE LoadUserStatsFailed(today)
        s2 == FtUpgrade(s0, tier, customer_id, subscription_id, today)
    IN  /\ "file" \in in_service
        /\ ~(loadOk /\ saveOk)
        /\ ~loadOk => files[u].exists
        /\ files' = IF saveOk THEN SaveUserStats(files, u, s2) ELSE files
        /\ ret' = FaultRet("ft_upgrade", u, saveOk, NoInfo)
        /\ FtLifecycleFrame

\* _handle_checkout_completed reporting success whatever the tracker answered
HandleCheckoutCompletedFault_IgnoresResult(store, e, now, loadOk, saveOk) ==
    IF e.user = None
    THEN [store |-> store, status |-> "error"]
    ELSE LET s0 == IF loadOk \/ ~store[e.user].exists
                   THEN LoadUserStats(store, e.user, now)
                   ELSE LoadUserStatsFailed(now)
             s2 == FtUpgrade(s0, "pro", e.customer, e.subscription, now)
         IN  [store |-> IF saveOk THEN SaveUserStats(store, e.user, s2) ELSE store,
              status |-> "success"]

\* _handle_checkout_completed over a failing store: success is what
\* upgrade_user_subscription answered
HandleCheckoutCompletedFault(store, e, now, loadOk, saveOk) ==
    IF e.user = None
    THEN [store |-> store, status |-> "error"]
    ELSE LET s0 == IF loadOk \/ ~store[e.user].exists
                   THEN LoadUserStats(store, e.user, now)
                   ELSE LoadUserStatsFailed(now)
             s2 == FtUpgrade(s0, "pro", e.customer, e.subscription, now)
         IN  [store |-> IF saveOk THEN SaveUserStats(store, e.user, s2) ELSE store,
              status |-> IF saveOk THEN "success" ELSE "error"]

\* handle_webhook_event over a failing store; the other handlers stop at
\* get_user_by_customer_id before any file is opened
HandleWebhookEventFault(store, e, now, loadOk, saveOk) ==
    IF e.type = CheckoutCompleted
    THEN HandleCheckoutCompletedFault(store, e, now, loadOk, saveOk)
    ELSE HandleWebhookEvent(store, e, now)

\* POST /webhook/stripe with a valid signature while the store fails
StripeWebhookFault(endpoint, e, loadOk, saveOk) ==
    LET r == HandleWebhookEventFault(files, e, today, loadOk, saveOk) IN
    /\ "file" \in in_service
    /\ ~(loadOk /\ saveOk)
    /\ files' = r.store
    /\ ret' = [WebhookRet(e, ResultStatus(endpoint, r.status), r.status)
                  EXCEPT !.fault = TRUE]
    /\ UNCHANGED <<profiles, today, ticks, records_today, pc, gate, upd, history,
                   in_service, proc, upload>>

\* DBUsageTracker.can_perform_analysis while the select raises:
\* _get_or_create_user_profile answers None and the call answers
\* (False, "Could not retrieve user profile.", {})
DbCanPerformAnalysisFault(u) ==
    /\ "db" \in in_service
    /\ ret' = FaultRet("db_can_perform", u, FALSE, NoInfo)
    /\ UNCHANGED profiles
    /\ DbFrame

\* ================================================================== clock
Tick(j) ==
    /\ ticks < MaxTicks
    /\ ticks' = ticks + 1
    /\ today' = today + j
    /\ records_today' = [t \in {"file", "db"} |-> [u \in Users |-> 0]]
    /\ UNCHANGED <<files, profiles, ret, pc, gate, upd, history, in_service, proc, upload>>

\* ==================================================== request flow of main()
SessUser(s) == "u1"

NoUpdate == [daily_analyses |-> 0, total_analyses |-> 0, last_analysis_date |-> NoDate]

SessFrame == UNCHANGED <<files, today, ticks, ret, in_service, proc, upload>>

\* main.py:867  can_analyze, reason, usage_info = can_perform_analysis(user_id)
\* and main.py:918-921: the request ends there when not can_analyze
Gate(s) ==
    LET u  == SessUser(s)
        t1 == GetOrCreate(profiles, u)
        d  == DbDecision(t1[u].data, today)
    IN  /\ "db" \in in_service
        /\ pc[s] = "idle"
        /\ upload[s].processed
        /\ profiles' = t1
        /\ gate' = [gate EXCEPT ![s] = d.allowed]
        /\ pc' = [pc EXCEPT ![s] = IF d.allowed THEN "permitted" ELSE "denied"]
        /\ UNCHANGED <<records_today, upd, history>>
        /\ SessFrame

\* Answer that also runs for a request the gate denied
Answer_IgnoresGate(s, good) ==
    /\ "db" \in in_service
    /\ pc[s] \in {"permitted", "denied"}
    /\ pc' = [pc EXCEPT ![s] = IF good THEN "answered" ELSE "failed"]
    /\ UNCHANGED <<profiles, records_today, gate, upd, history>>
    /\ SessFrame

\* main.py:953-969  the answering step; it fails when the agent cannot be
\* loaded, raises, or answers "Error..."
Answer(s, good) ==
    /\ "db" \in in_service
    /\ pc[s] = "permitted"
    /\ pc' = [pc EXCEPT ![s] = IF good THEN "answered" ELSE "failed"]
    /\ UNCHANGED <<profiles, records_today, gate, upd, history>>
    /\ SessFrame

\* RecordRead that also runs after a failed answer
RecordRead_AfterFailure(s) ==
    LET u  == SessUser(s)
        t1 == GetOrCreate(profiles, u)
    IN  /\ "db" \in in_service
        /\ pc[s] \in {"answered", "failed"}
        /\ profiles' = t1
        /\ upd' = [upd EXCEPT ![s] = DbUpdateData(t1[u].data, today)]
        /\ pc' = [pc EXCEPT ![s] = "recording"]
        /\ UNCHANGED <<records_today, gate, history>>
        /\ SessFrame

\* main.py:974 record_analysis, first half: load the profile, compute update_data
RecordRead(s) ==
    LET u  == SessUser(s)
        t1 == GetOrCreate(profiles, u)
    IN  /\ "db" \in in_service
        /\ pc[s] = "answered"
        /\ profiles' = t1
        /\ upd' = [upd EXCEPT ![s] = DbUpdateData(t1[u].data, today)]
        /\ pc' = [pc EXCEPT ![s] = "recording"]
        /\ UNCHANGED <<records_today, gate, history>>
        /\ SessFrame

\* record_analysis, second half: the UPDATE statement
RecordWrite(s) ==
    LET u == SessUser(s) IN
    /\ "db" \in in_service
    /\ pc[s] = "recording"
    /\ profiles' = [profiles EXCEPT ![u].data = DbApplyUpdate(@, upd[s])]
    /\ records_today' = IF upd[s].last_analysis_date = today
                        THEN [records_today EXCEPT !["db"][u] = @ + 1]
                        ELSE records_today
    /\ upd' = [upd EXCEPT ![s] = NoUpdate]
    /\ pc' = [pc EXCEPT ![s] = "recorded"]
    /\ UNCHANGED <<gate, history>>
    /\ SessFrame

\* SaveAnalysis that takes the increment back when the append fails
SaveAnalysis_RollsBack(s, saved) ==
    LET u == SessUser(s) IN
    /\ "db" \in in_service
    /\ pc[s] = "recorded"
    /\ history' = IF saved THEN [history EXCEPT ![u] = @ + 1] ELSE history
    /\ profiles' = IF saved THEN profiles
                   ELSE [profiles EXCEPT ![u].data.total_analyses = @ - 1,
                                         ![u].data.daily_analyses = @ - 1]
    /\ pc' = [pc EXCEPT ![s] = "done"]
    /\ UNCHANGED <<records_today, gate, upd>>
    /\ SessFrame

\* main.py:983 analysis_history.save_analysis; when it raises, the
\* `except Exception` of main.py:1023 reports the error
SaveAnalysis(s, saved) ==
    LET u == SessUser(s) IN
    /\ "db" \in in_service
    /\ pc[s] = "recorded"
    /\ history' = IF saved THEN [history EXCEPT ![u] = @ + 1] ELSE history
    /\ pc' = [pc EXCEPT ![s] = "done"]
    /\ UNCHANGED <<profiles, records_today, gate, upd>>
    /\ SessFrame

\* ------------------------------------------------------------ file upload
\* FileProcessor.MAX_FILE_SIZES, in MB (the code holds them in bytes)
MAX_FILE_SIZES_MB == [csv |-> 100, pdf |-> 50, text |-> 10, image |-> 10]

\* UsageLimits.TIER_LIMITS[tier]["max_file_size_mb"] of the database tracker
DB_MAX_FILE_SIZE_MB == [free |-> 10, pro |-> 100, enterprise |-> 500, admin |-> 1000]

\* the files a user picks: get_file_type(name) and size, in whole MB
FileTypes   == {"csv", "text", "unknown"}
UploadSizes == {5, 50, 200}

NoUpload    == [type |-> "unknown", size_mb |-> 0, processed |-> FALSE]
ReadyUpload == [type |-> "csv", size_mb |-> 5, processed |-> TRUE]

\* FileProcessor.validate_file
ValidateFile(file_type, size_mb) ==
    IF file_type = "unknown" THEN FALSE
    ELSE ~(size_mb > MAX_FILE_SIZES_MB[file_type])

\* main.py:758-857  a file is in the uploader: get_user_tier_info, then
\* validate_file; a file that fails validation clears the session's
\* processed content, any other is processed
Upload(s, file_type, size_mb) ==
    LET u == SessUser(s) IN
    /\ "db" \in in_service
    /\ pc[s] = "idle"
    /\ profiles' = GetOrCreate(profiles, u)
    /\ upload' = [upload EXCEPT ![s] =
                     [type |-> file_type, size_mb |-> size_mb,
                      processed |-> ValidateFile(file_type, size_mb)]]
    /\ UNCHANGED <<files, today, ticks, ret, records_today, pc, gate, upd,
                   history, in_service, proc>>

\* ========================================================== specifications
StartStores(c) ==
    /\ files = [u \in Users |-> NoFile]
    /\ profiles = [u \in Users |-> NoRow]
    /\ today = 0
    /\ ticks = 0
    /\ ret = NoRet
    /\ records_today = [t \in {"file", "db"} |-> [u \in Users |-> 0]]
    /\ pc = [s \in Sess |-> "idle"]
    /\ gate = [s \in Sess |-> FALSE]
    /\ upd = [s \in Sess |-> NoUpdate]
    /\ history = [u \in Users |-> 0]
    /\ in_service = c
    /\ proc = [p \in Procs |-> NoProc]

\* every session holds a processed file, as the requests of main() need
Start(c) ==
    /\ StartStores(c)
    /\ upload = [s \in Sess |-> ReadyUpload]

\* The two trackers share no state.  Spec exercises the public interface of
\* one of them (and, for the file tracker, the webhook endpoints in front of
\* it), calls made one at a time, as time passes.
Init == \E t \in {"file", "db"} : Start({t})

Next ==
    \/ \E u \in Users : FtCanPerformAnalysis(u)
    \/ \E u \in Users : FtRecordAnalysis(u)
    \/ \E u \in Users : FtGetUserTierInfo(u)
    \/ \E u \in Users, t \in UpgradeTiers, c \in CustomerIds, i \in UpgradeSubIds :
           FtUpgradeUserSubscription(u, t, c, i)
    \/ \E u \in Users : FtDowngradeUserSubscription(u)
    \/ \E u \in Users, t \in StatusTiers, i \in UpgradeSubIds, st \in StatusInputs :
           FtUpdateUserSubscriptionStatus(u, t, i, st)
    \/ \E u \in Users, i \in SubIds : FtConfirmUserSubscription(u, i)
    \/ \E ep \in Endpoints, sig \in Signatures, e \in Events : StripeWebhook(ep, sig, e)
    \/ \E u \in Users : DbCanPerformAnalysis(u)
    \/ \E u \in Users : DbRecordAnalysis(u)
    \/ \E u \in Users : DbGetUserTierInfo(u)
    \/ \E u \in Users, t \in UpgradeTiers, c \in CustomerIds, i \in UpgradeSubIds :
           DbUpgradeUserSubscription(u, t, c, i)
    \/ \E u \in Users : DbDowngradeUserSubscription(u)
    \/ \E u \in Users, t \in StatusTiers, st \in StatusInputs :
           DbUpdateUserSubscriptionStatus(u, t, st)
    \/ \E u \in Users : DbConfirmUserSubscription(u)
    \/ \E u \in Users : DbUpgradeToAdmin(u)
    \/ \E j \in DayJumps : Tick(j)

Spec == Init /\ [][Next]_vars

\* The deployment: the webhook server (app/webhook_server.py and the two
\* integrated variants) in front of the file tracker, and the application
\* (app/main.py) calling the database tracker, one call at a time.
InitWired == Start({"file", "db"})

NextWired ==
    \/ \E ep \in Endpoints, sig \in Signatures, e \in Events : StripeWebhook(ep, sig, e)
    \/ \E u \in Users : DbCanPerformAnalysis(u)
    \/ \E u \in Users : DbRecordAnalysis(u)
    \/ \E u \in Users : DbGetUserTierInfo(u)
    \/ \E j \in DayJumps : Tick(j)

WiredSpec == InitWired /\ [][NextWired]_vars

\* concurrent requests of the application against the database tracker
InitRace == Start({"db"})

NextRace ==
    \/ \E s \in Sess : Gate(s)
    \/ \E s \in Sess, good \in BOOLEAN : Answer(s, good)
    \/ \E s \in Sess : RecordRead(s)
    \/ \E s \in Sess : RecordWrite(s)
    \/ \E s \in Sess, saved \in BOOLEAN : SaveAnalysis(s, saved)

RaceSpec == InitRace /\ [][NextRace]_vars

\* a record_analysis of the application running while a billing-driven
\* lifecycle transition runs, against the file tracker or against the
\* database tracker (whose lifecycle methods are one UPDATE statement)
\* the session of the application whose record_analysis is followed
AppSess == {1}

InitLedgerRace == \E t \in {"file", "db"} : Start({t})

NextLedgerRace ==
    \/ \E u \in Users : FtRecordLoad(u)
    \/ FtRecordSave
    \/ \E u \in Users, op \in LifecycleOps : FtLifecycleLoad(u, op)
    \/ FtLifecycleSave
    \/ \E s \in AppSess : Gate(s)
    \/ \E s \in AppSess : Answer(s, TRUE)
    \/ \E s \in AppSess : RecordRead(s)
    \/ \E s \in AppSess : RecordWrite(s)
    \/ \E s \in AppSess : SaveAnalysis(s, TRUE)
    \/ \E u \in Users, t \in UpgradeTiers, c \in CustomerIds, i \in UpgradeSubIds :
           DbUpgradeUserSubscription(u, t, c, i)
    \/ \E u \in Users : DbDowngradeUserSubscription(u)

LedgerRaceSpec == InitLedgerRace /\ [][NextLedgerRace]_vars

\* one session of the application from the upload on, while the billing side
\* raises the user's tier
InitUpload ==
    /\ StartStores({"db"})
    /\ upload = [s \in Sess |-> NoUpload]

NextUpload ==
    \/ \E s \in AppSess, ft \in FileTypes, mb \in UploadSizes : Upload(s, ft, mb)
    \/ \E s \in AppSess : Gate(s)
    \/ \E s \in AppSess, good \in BOOLEAN : Answer(s, good)
    \/ \E s \in AppSess : RecordRead(s)
    \/ \E s \in AppSess : RecordWrite(s)
    \/ \E s \in AppSess, saved \in BOOLEAN : SaveAnalysis(s, saved)
    \/ \E u \in Users, t \in UpgradeTiers, c \in CustomerIds, i \in UpgradeSubIds :
           DbUpgradeUserSubscription(u, t, c, i)

UploadSpec == InitUpload /\ [][NextUpload]_vars

\* one tracker at a time, as in Spec, over a persistence layer that can fail
\* under a call
InitFault == \E t \in {"file", "db"} : Start({t})

NextFault ==
    \/ \E u \in Users : FtCanPerformAnalysis(u)
    \/ \E u \in Users : FtRecordAnalysis(u)
    \/ \E u \in Users : FtCanPerformAnalysisFault(u)
    \/ \E u \in Users, t \in UpgradeTiers, c \in CustomerIds, i \in UpgradeSubIds :
           FtUpgradeUserSubscription(u, t, c, i)
    \/ \E u \in Users, t \in UpgradeTiers, c \in CustomerIds, i \in UpgradeSubIds,
          loadOk, saveOk \in BOOLEAN :
           FtUpgradeUserSubscriptionFault(u, t, c, i, loadOk, saveOk)
    \/ \E ep \in Endpoints, e \in Events, loadOk, saveOk \in BOOLEAN :
           StripeWebhookFault(ep, e, loadOk, saveOk)
    \/ \E u \in Users : DbCanPerformAnalysis(u)
    \/ \E u \in Users : DbRecordAnalysis(u)
    \/ \E u \in Users : DbCanPerformAnalysisFault(u)
    \/ \E j \in DayJumps : Tick(j)

FaultSpec == InitFault /\ [][NextFault]_vars

\* ================================================================== claims
EventOf(id) == CHOOSE e \in Events : e.id = id

\* C1: with the free tier's daily limit K, concurrent gate-then-record pairs
\* of one user on one day record at most K analyses, and when every request
\* has run to its end with every analysis succeeding, exactly K were recorded
\* and all the others were denied.
C1_AtMostKRecorded ==
    LET K == DB_TIER_LIMITS["free"] IN
    \A u \in Users :
        /\ records_today["db"][u] <= K
        /\ (\A s \in Sess : pc[s] \in {"denied", "done"})
               => /\ records_today["db"][u] = K
                  /\ Cardinality({s \in Sess : pc[s] = "denied"}) = NSess - K

C3_DailyCountWithinLimit ==
    \A u \in Users :
        /\ LET st == files[u].data
               K  == TIER_LIMITS[st.subscription_tier]
           IN  (files[u].exists /\ K >= 0 /\ st.last_analysis_date = today)
                   => st.daily_analyses <= K
        /\ LET p == profiles[u].data
               K == DB_TIER_LIMITS[p.subscription_tier]
           IN  (profiles[u].exists /\ K >= 0 /\ p.last_analysis_date = today)
                   => p.daily_analyses <= K

\* C4: when an event that was processed with status success is delivered
\* again, the second delivery is answered 200 with the same result and leaves
\* the usage records as they are.
C4_RedeliveryChangesNothing ==
    [][ ( /\ ret.op = "webhook" /\ ret.status = "success"
          /\ ret'.op = "webhook" /\ ret'.event = ret.event
          /\ today' = today /\ ticks' = ticks )
        => ( /\ files' = files
             /\ ret'.status = ret.status
             /\ ret.http = 200 /\ ret'.http = 200 ) ]_vars

\* C5: a delivery whose signature is missing or does not verify is answered
\* 400 and changes no usage record.
C5_BadSignatureIs400 ==
    [][ (ret'.op = "webhook" /\ ret'.status = "rejected" /\ ret' # ret)
        => (ret'.http = 400 /\ files' = files /\ profiles' = profiles) ]_vars

\* C6: after a checkout.session.completed event for user u was processed with
\* status success, the application's next can_perform_analysis(u) or
\* tier-info query reports tier pro.
C6_CheckoutVisibleToApplication ==
    [][ ( /\ ret.op = "webhook" /\ ret.status = "success"
          /\ EventOf(ret.event).type = CheckoutCompleted
          /\ ret'.op \in {"db_can_perform", "db_tier_info"}
          /\ ret'.user = ret.user )
        => ret'.info.current_tier = "pro" ]_vars

\* C7: after a checkout.session.completed event with a user id, a customer
\* ref and a subscription ref was processed, the user's record has tier pro,
\* status active and both refs, and the tier-info query reports tier pro with
\* analyses_remaining -1.
C7_CheckoutUpgradesToPro ==
    \A e \in Events :
        (ret.op = "webhook" /\ ret.status = "success" /\ ret.event = e.id
           /\ e.type = CheckoutCompleted)
        => LET st == LoadUserStats(files, e.user, today)
               ti == FtTierInfo(st, today)
           IN  /\ files[e.user].exists
               /\ st.subscription_tier = "pro"
               /\ st.subscription_status = "active"
               /\ st.stripe_customer_id = e.customer
               /\ st.stripe_subscription_id = e.subscription
               /\ ti.current_tier = "pro"
               /\ ti.analyses_remaining = -1

C7_Witness ==
    /\ ret.op = "webhook" /\ ret.status = "success" /\ ret.event = "evt_1"
    /\ files["u1"].exists
    /\ files["u1"].data.total_analyses > 0

\* C8: can_perform_analysis for a user on tier pro whose expiry date has
\* passed persists tier free and status cancelled and decides against the
\* free tier's limits.
C8_ExpiredProIsDowngraded ==
    [][ \A u \in Users :
        /\ ( /\ ret'.op = "ft_can_perform" /\ ret'.user = u /\ today' = today
             /\ files[u].exists
             /\ files[u].data.subscription_tier = "pro"
             /\ files[u].data.subscription_expires # NoDate
             /\ files[u].data.subscription_expires < today )
           => ( /\ files'[u].data.subscription_tier = "free"
                /\ files'[u].data.subscription_status = "cancelled"
                /\ ret'.info.current_tier = "free" )
        /\ ( /\ ret'.op = "db_can_perform" /\ ret'.user = u /\ today' = today
             /\ profiles[u].exists
             /\ profiles[u].data.subscription_tier = "pro"
             /\ profiles[u].data.subscription_expires_at # NoDate
             /\ profiles[u].data.subscription_expires_at < today )
           => ( /\ profiles'[u].data.subscription_tier = "free"
                /\ profiles'[u].data.subscription_status = "cancelled"
                /\ ret'.info.current_tier = "free" ) ]_vars

\* C9: can_perform_analysis answers allowed = true for a user whose tier has
\* daily limit -1 and whose subscription has not expired, whatever the
\* counters are.
C9_UnlimitedAlwaysAllowed ==
    [][ \A u \in Users :
        /\ ( /\ ret'.op = "ft_can_perform" /\ ret'.user = u /\ today' = today
             /\ TIER_LIMITS[LoadUserStats(files, u, today).subscription_tier] = -1
             /\ ~FtExpired(LoadUserStats(files, u, today), today) )
           => ret'.ok
        /\ ( /\ ret'.op = "db_can_perform" /\ ret'.user = u /\ today' = today
             /\ profiles[u].exists
             /\ DB_TIER_LIMITS[profiles[u].data.subscription_tier] = -1
             /\ ( \/ profiles[u].data.subscription_expires_at = NoDate
                  \/ profiles[u].data.subscription_expires_at >= today ) )
           => ret'.ok ]_vars

C9_Witness ==
    \E u \in Users :
        /\ ret.op = "ft_can_perform" /\ ret.user = u /\ ret.ok
        /\ files[u].data.subscription_tier = "pro"
        /\ files[u].data.last_analysis_date = today
        /\ files[u].data.daily_analyses >= 2

\* C10: a user's persisted total_analyses never decreases.
C10_TotalNeverDecreases ==
    [][ \A u \in Users :
        /\ files'[u].data.total_analyses >= files[u].data.total_analyses
        /\ profiles'[u].data.total_analyses >= profiles[u].data.total_analyses
      ]_vars

\* C11: a record_analysis that runs while a billing-driven upgrade or
\* downgrade of the same user runs loses neither update: the write of
\* record_analysis adds one to total_analyses and leaves tier, status, expiry
\* and the Stripe references as stored, and the write of the lifecycle method
\* leaves the counters as stored.
LifecycleFields(r) ==
    <<r.subscription_tier, r.subscription_status, r.stripe_customer_id,
      r.stripe_subscription_id>>

CounterFields(r) == <<r.daily_analyses, r.total_analyses, r.last_analysis_date>>

C11_NoLostUpdate ==
    [][ \A u \in Users :
        /\ (proc["app"].at = "loaded" /\ proc'["app"].at = "idle"
              /\ proc["app"].user = u)
           => /\ LifecycleFields(files'[u].data) = LifecycleFields(files[u].data)
              /\ files'[u].data.subscription_expires = files[u].data.subscription_expires
              /\ files'[u].data.total_analyses = files[u].data.total_analyses + 1
        /\ (proc["billing"].at = "loaded" /\ proc'["billing"].at = "idle"
              /\ proc["billing"].user = u)
           => CounterFields(files'[u].data) = CounterFields(files[u].data)
        /\ (\E s \in AppSess : pc[s] = "recording" /\ pc'[s] = "recorded"
                                 /\ SessUser(s) = u)
           => /\ LifecycleFields(profiles'[u].data) = LifecycleFields(profiles[u].data)
              /\ profiles'[u].data.subscription_expires_at
                     = profiles[u].data.subscription_expires_at
              /\ profiles'[u].data.total_analyses = profiles[u].data.total_analyses + 1
        /\ (ret'.op \in {"db_upgrade", "db_downgrade"} /\ ret'.user = u /\ pc' = pc)
           => CounterFields(profiles'[u].data) = CounterFields(profiles[u].data)
      ]_vars

\* C12: when the answering step of a request fails, the request ends there:
\* the failing step changes neither the user's counters nor the history, and
\* the request takes no further step (record_analysis is not called, no audit
\* record is appended).
C12_FailedAnswerConsumesNothing ==
    [][ \A s \in Sess :
        /\ (pc[s] = "permitted" /\ pc'[s] = "failed")
           => (profiles' = profiles /\ history' = history /\ upd' = upd)
        /\ (pc[s] = "failed") => (pc'[s] = "failed")
      ]_vars

C12_Witness ==
    \E s, t \in Sess :
        /\ pc[s] = "failed" /\ gate[s]
        /\ pc[t] = "done"
        /\ profiles[SessUser(s)].data.total_analyses = 1
        /\ history[SessUser(s)] = 1

\* C13: the audit record is appended only by a request whose record_analysis
\* has completed, and a failing append leaves the ledger as record_analysis
\* left it (the increment is kept).
C13_RecordBeforeAuditNoRollback ==
    [][ /\ (history' # history)
           => \E s \in Sess : pc[s] = "recorded" /\ pc'[s] = "done"
        /\ \A s \in Sess :
              (pc[s] = "recorded" /\ pc'[s] = "done") => profiles' = profiles
      ]_vars

C13_Witness ==
    \E s \in Sess :
        /\ pc[s] = "done"
        /\ \A t \in Sess \ {s} : pc[t] = "idle"
        /\ history[SessUser(s)] = 0
        /\ profiles[SessUser(s)].data.total_analyses = 1
        /\ profiles[SessUser(s)].data.daily_analyses = 1

\* C14: a file larger than max_file_size_mb of the user's tier is not
\* accepted: it never becomes the session's processed content, so no
\* analysis runs on it.
C14_OversizeUploadRejected ==
    [][ \A s \in Sess :
        (upload'[s] # upload[s] /\ upload'[s].processed)
        => upload'[s].size_mb
              <= DB_MAX_FILE_SIZE_MB[profiles'[SessUser(s)].data.subscription_tier]
      ]_vars

\* C15: a request that can_perform_analysis denied takes no further action:
\* neither the answering step nor record_analysis runs for it.
C15_DeniedRequestStops ==
    [][ \A s \in Sess :
        /\ (pc[s] = "idle" /\ pc'[s] = "denied")
           => (~gate'[s] /\ history' = history /\ upd' = upd
                 /\ CounterFields(profiles'[SessUser(s)].data)
                      = CounterFields(profiles[SessUser(s)].data))
        /\ (pc[s] = "denied") => (pc'[s] = "denied")
        /\ (pc'[s] \in {"answered", "failed"} /\ pc[s] # pc'[s]) => gate[s]
      ]_vars

C15_Witness ==
    \E s, t \in Sess :
        /\ pc[s] = "denied" /\ ~gate[s]
        /\ pc[t] = "done"
        /\ profiles[SessUser(s)].data.total_analyses = 1

\* this step stored a pro record for user u
SavedUpgrade(u) ==
    /\ files'[u].exists
    /\ files'[u].data.subscription_tier = "pro"
    /\ files'[u].data.subscription_expires = today + FileExpiryDays
    /\ files'[u].data.subscription_status = "active"

\* the users whose stored record carries the customer ref
LinkedUsers(customer_id) ==
    {u \in Users : files[u].exists /\ files[u].data.stripe_customer_id = customer_id}

\* a delivery of event id that reached the handler completes in this step
Delivered(id) ==
    ret'.op = "webhook" /\ ret'.event = id /\ today' = today

\* C16: a checkout.session.completed event without a user_id changes no usage
\* record and is answered 200 with status error.
C16_CheckoutWithoutUserIs200Error ==
    [][ Delivered("evt_2")
        => ( /\ files' = files /\ profiles' = profiles
             /\ ret'.status = "error"
             /\ ret'.http = 200 ) ]_vars

\* C17: update_user_subscription_status with a status other than active
\* leaves the user on tier free with the expiry cleared, and after a
\* customer.subscription.updated event with such a status the user of that
\* customer is on tier free.
C17_NonActiveStatusForcesFree ==
    [][ \A u \in Users :
        /\ ( /\ ret'.op = "ft_update_status" /\ ret'.user = u /\ today' = today
             /\ files'[u].data.subscription_status # "active" )
           => ( /\ files'[u].data.subscription_tier = "free"
                /\ files'[u].data.subscription_expires = NoDate )
        /\ ( /\ ret'.op = "db_update_status" /\ ret'.user = u /\ today' = today
             /\ ret'.ok
             /\ profiles'[u].data.subscription_status # "active" )
           => ( /\ profiles'[u].data.subscription_tier = "free"
                /\ profiles'[u].data.subscription_expires_at = NoDate )
        /\ ( /\ Delivered("evt_3")
             /\ u \in LinkedUsers(EventOf("evt_3").customer) )
           => files'[u].data.subscription_tier = "free"
      ]_vars

\* C18: after a customer.subscription.deleted event for the customer of user
\* u, and after any downgrade_user_subscription(u), the record of u has tier
\* free, status cancelled, no subscription ref and no expiry; the downgrade
\* of a user who is already on free succeeds.
C18_DeletedSubscriptionDowngrades ==
    [][ \A u \in Users :
        /\ ( /\ Delivered("evt_4")
             /\ u \in LinkedUsers(EventOf("evt_4").customer) )
           => ( /\ files'[u].data.subscription_tier = "free"
                /\ files'[u].data.subscription_status = "cancelled"
                /\ files'[u].data.stripe_subscription_id = None
                /\ files'[u].data.subscription_expires = NoDate )
        /\ ( ret'.op = "ft_downgrade" /\ ret'.user = u /\ today' = today )
           => ( /\ ret'.ok
                /\ files'[u].data.subscription_tier = "free"
                /\ files'[u].data.subscription_status = "cancelled"
                /\ files'[u].data.stripe_subscription_id = None
                /\ files'[u].data.subscription_expires = NoDate )
        /\ ( /\ ret'.op = "db_downgrade" /\ ret'.user = u /\ today' = today
             /\ profiles[u].exists )
           => ( /\ ret'.ok
                /\ profiles'[u].data.subscription_tier = "free"
                /\ profiles'[u].data.subscription_status = "cancelled"
                /\ profiles'[u].data.stripe_subscription_id = None
                /\ profiles'[u].data.subscription_expires_at = NoDate )
      ]_vars

\* C19: an invoice.payment_failed event leaves every usage record, and with
\* it the tier, status and expiry of the customer's user, as it was.
C19_PaymentFailedChangesNothing ==
    [][ Delivered("evt_6") => (files' = files /\ profiles' = profiles) ]_vars

C19_Witness ==
    /\ ret.op = "webhook" /\ ret.event = "evt_6" /\ ret.http = 200
    /\ "u1" \in LinkedUsers("cus_1")
    /\ files["u1"].data.subscription_tier = "pro"
    /\ files["u1"].data.subscription_expires # NoDate

\* C20: confirm_user_subscription, and an invoice.payment_succeeded event for
\* the customer of user u, set the expiry of u to today + 31 days and leave
\* the tier as it was.
C20_ConfirmExtends31Days ==
    [][ \A u \in Users :
        /\ ( /\ Delivered("evt_5")
             /\ u \in LinkedUsers(EventOf("evt_5").customer) )
           => ( /\ files'[u].data.subscription_expires = today + 31
                /\ files'[u].data.subscription_tier = files[u].data.subscription_tier )
        /\ ( ret'.op = "ft_confirm" /\ ret'.user = u /\ today' = today /\ ret'.ok )
           => ( /\ files'[u].data.subscription_expires = today + 31
                /\ files'[u].data.subscription_tier = files[u].data.subscription_tier )
        /\ ( ret'.op = "db_confirm" /\ ret'.user = u /\ today' = today /\ ret'.ok )
           => ( /\ profiles'[u].data.subscription_expires_at = today + 31
                /\ profiles'[u].data.subscription_tier
                       = profiles[u].data.subscription_tier )
      ]_vars

\* C21: upgrade_user_subscription applied twice with the same arguments to
\* any stored record, the second time on the same or on a later day, gives
\* the record that one application gives, apart from the expiry; the
\* counters and created_at are those of one application.
C21_UpgradeIdempotent ==
    \A u \in Users, t \in UpgradeTiers, c \in CustomerIds, i \in SubIds,
       j \in {0} \cup DayJumps :
        /\ LET once  == FtUpgrade(LoadUserStats(files, u, today), t, c, i, today)
               twice == FtUpgrade(once, t, c, i, today + j)
           IN  /\ [twice EXCEPT !.subscription_expires = NoDate]
                    = [once EXCEPT !.subscription_expires = NoDate]
               /\ CounterFields(twice) = CounterFields(LoadUserStats(files, u, today))
        /\ LET once  == DbUpgrade(profiles[u].data, t, c, i, today)
               twice == DbUpgrade(once, t, c, i, today + j)
           IN  /\ [twice EXCEPT !.subscription_expires_at = NoDate]
                    = [once EXCEPT !.subscription_expires_at = NoDate]
               /\ CounterFields(twice) = CounterFields(profiles[u].data)

C21_Witness ==
    \E u \in Users :
        /\ ret.op = "ft_upgrade" /\ ret.user = u
        /\ files[u].exists
        /\ files[u].data.created_at < today
        /\ files[u].data.subscription_expires = today + FileExpiryDays
        /\ files[u].data.total_analyses > 0

\* C22: a user whose stored tier is admin has no expiry date, and a
\* can_perform_analysis that answers for tier admin permits.
C22_AdminNeverExpires ==
    \A u \in Users :
        /\ (files[u].exists /\ files[u].data.subscription_tier = "admin")
               => files[u].data.subscription_expires = NoDate
        /\ (profiles[u].exists /\ profiles[u].data.subscription_tier = "admin")
               => profiles[u].data.subscription_expires_at = NoDate
        /\ ( /\ ret.op \in {"ft_can_perform", "db_can_perform"} /\ ret.user = u
             /\ ret.info.current_tier = "admin" )
               => ret.ok

\* C23: a can_perform_analysis during which the persistence layer failed
\* does not answer allowed = true and does not answer as a denial: it
\* surfaces a transient error.
C23_LoadFailureIsTransientError ==
    (ret.op \in {"ft_can_perform", "db_can_perform"} /\ ret.fault)
        => (~ret.ok /\ ret.status = "transient_error")

C25_DailyCountScopedToDay ==
    [][ \A u \in Users :
        /\ LET st == LoadUserStats(files, u, today) IN
           /\ ( /\ ret'.op = "ft_can_perform" /\ ret'.user = u /\ today' = today
                /\ st.last_analysis_date # today )
              => ( /\ ret'.info.daily_analyses_used = 0
                   /\ ret'.ok )
           /\ ( /\ ret'.op = "ft_record" /\ ret'.user = u /\ today' = today
                /\ st.last_analysis_date # today )
              => ( /\ files'[u].data.daily_analyses = 1
                   /\ files'[u].data.last_analysis_date = today
                   /\ files'[u].data.total_analyses = st.total_analyses + 1 )
        /\ LET p == profiles[u].data IN
           /\ ( /\ ret'.op = "db_can_perform" /\ ret'.user = u /\ today' = today
                /\ p.last_analysis_date # today )
              => ( /\ ret'.info.daily_analyses_used = 0
                   /\ ret'.ok )
           /\ ( /\ ret'.op = "db_record" /\ ret'.user = u /\ today' = today
                /\ p.last_analysis_date # today )
              => ( /\ profiles'[u].data.daily_analyses = 1
                   /\ profiles'[u].data.last_analysis_date = today
                   /\ profiles'[u].data.total_analyses = p.total_analyses + 1 )
      ]_vars

C25_Witness ==
    \E u \in Users :
        /\ ret.op = "db_record" /\ ret.user = u
        /\ ticks = 1
        /\ profiles[u].data.subscription_tier = "free"
        /\ profiles[u].data.last_analysis_date = today
        /\ profiles[u].data.daily_analyses = 1
        /\ profiles[u].data.total_analyses = 2

\* C26: a can_perform_analysis for a user whose stored record has a status
\* other than active and a tier other than free stores tier free and decides
\* for tier free.
C26_InactivePaidTierIsResolved ==
    [][ \A u \in Users :
        /\ ( /\ ret'.op = "ft_can_perform" /\ ret'.user = u /\ today' = today
             /\ files[u].exists
             /\ files[u].data.subscription_status # "active"
             /\ files[u].data.subscription_tier # "free" )
           => ( /\ files'[u].data.subscription_tier = "free"
                /\ ret'.info.current_tier = "free" )
        /\ ( /\ ret'.op = "db_can_perform" /\ ret'.user = u /\ today' = today
             /\ profiles[u].exists
             /\ profiles[u].data.subscription_status # "active"
             /\ profiles[u].data.subscription_tier # "free" )
           => ( /\ profiles'[u].data.subscription_tier = "free"
                /\ ret'.info.current_tier = "free" )
      ]_vars

\* C28: in every usage snapshot a call returns, analyses_remaining is -1
\* exactly when the tier's daily limit is unlimited, and for a finite limit
\* 0 <= analyses_remaining <= limit and analyses_remaining = limit - used.
C28_RemainingConsistent ==
    (ret.info.present /\ ret.op \in {"ft_can_perform", "ft_record", "ft_tier_info",
                                     "db_can_perform", "db_record", "db_tier_info"})
    => LET limit == TIER_LIMITS[ret.info.current_tier] IN
       /\ (ret.info.analyses_remaining = -1) <=> (limit = -1)
       /\ (limit # -1)
          => ( /\ 0 <= ret.info.analyses_remaining
               /\ ret.info.analyses_remaining <= limit
               /\ ret.info.analyses_remaining = limit - ret.info.daily_analyses_used )

\* C29: upgrade, downgrade, update_status, confirm and the expiry downgrade
\* of can_perform_analysis leave the stored daily_analyses, total_analyses,
\* last_analysis_date and created_at of the user as they were.
C29_TransitionsKeepCounters ==
    [][ \A u \in Users :
        /\ ( /\ ret'.op \in {"ft_upgrade", "ft_downgrade", "ft_update_status",
                             "ft_confirm", "ft_can_perform", "webhook"}
             /\ today' = today
             /\ files[u].exists )
           => ( /\ CounterFields(files'[u].data) = CounterFields(files[u].data)
                /\ files'[u].data.created_at = files[u].data.created_at )
        /\ ( /\ ret'.op \in {"db_upgrade", "db_downgrade", "db_update_status",
                             "db_confirm", "db_admin", "db_can_perform"}
             /\ today' = today
             /\ profiles[u].exists )
           => CounterFields(profiles'[u].data) = CounterFields(profiles[u].data)
      ]_vars

\* C30: a billing event that reached the handler leaves a user on tier admin
\* on tier admin, and leaves a user on another tier off tier admin.
C30_BillingNeverTouchesAdmin ==
    [][ \A u \in Users :
        (ret'.op = "webhook" /\ ret'.status # "rejected" /\ today' = today)
        => ( (files'[u].data.subscription_tier = "admin")
               <=> (files[u].data.subscription_tier = "admin") )
      ]_vars

\* C27: a delivery of customer.subscription.updated,
\* customer.subscription.deleted or invoice.payment_succeeded that is answered
\* with status success has stored its lifecycle change in the record of the
\* customer's user.
C27_SuccessMeansPersisted ==
    [][ \A u \in Users :
        ( /\ ret'.op = "webhook" /\ ret'.status = "success" /\ today' = today
          /\ ret'.event \in {"evt_3", "evt_4", "evt_5"}
          /\ u \in LinkedUsers("cus_1") )
        => ( /\ ret'.event = "evt_3"
                => files'[u].data.subscription_status = EventOf("evt_3").status
             /\ ret'.event = "evt_4"
                => files'[u].data.subscription_status = "cancelled"
             /\ ret'.event = "evt_5"
                => files'[u].data.subscription_expires = today + FileExpiryDays )
      ]_vars

\* a delivery of one of the three events answered with status success
C27_SuccessAnswered ==
    /\ ret.op = "webhook" /\ ret.status = "success"
    /\ ret.event \in {"evt_3", "evt_4", "evt_5"}

====
